---- MODULE Spec2Model ----
(***************************************************************************)
(* Model of the panorama voxel block codec (DecodeMapBlock, MapBlock) and  *)
(* of the render BlockNeighborhood, translated from the Go sources.        *)
(*                                                                         *)
(* Two specifications share the module:                                    *)
(*   SpecCodec - DecodeMapBlock applied to a bounded family of raw blocks, *)
(*               followed by MapBlock.ResolveName / MapBlock.GetNode;      *)
(*   Spec      - a BlockNeighborhood driven by FetchBlock, SetBlock,       *)
(*               GetNode and GetParam1.                                    *)
(*                                                                         *)
(* Byte strings are sequences of 0..255.  A Go string is its byte          *)
(* sequence.  A nil pointer is Nil.  A run-time panic (index out of range) *)
(* is recorded and ends the run.                                           *)
(***************************************************************************)
EXTENDS Integers, Sequences, FiniteSets, TLC

VARIABLES
    blocks,     \* BlockNeighborhood.blocks: index 0..26 -> *MapBlock (or Nil)
    last,       \* the neighborhood call that ran last, its arguments and outcome
    calls,      \* number of FetchBlock / SetBlock calls made so far
    input,      \* codec: the raw block handed to DecodeMapBlock
    result,     \* codec: what DecodeMapBlock returned (block, err), or "pending"
    query       \* codec: the MapBlock query that ran last and its outcome

vars == <<blocks, last, calls, input, result, query>>

\* the nil *MapBlock, and the nil error
Nil == [nil |-> TRUE]
NoErr == "nil"

----------------------------------------------------------------------------
(* Program constants *)

MapBlockSize == 16
MapBlockVolume == MapBlockSize * MapBlockSize * MapBlockSize
NodeSizeInBytes == 4
NodeArrayLen == MapBlockVolume * NodeSizeInBytes
SupportedVersion == 29
BlockSize == 16
NeighborhoodLen == 27

(* Bounds of the model *)

MaxMappings == 2
MaxCalls == 2

----------------------------------------------------------------------------
(* Byte sources.                                                           *)
(* A source is a byte string given by an explicit prefix hdr, followed by  *)
(* a generated node array, cut to len bytes.  bytes.Reader is a source     *)
(* with a read position.                                                   *)

NodeGenByte(seed, j) ==
    IF j < 2 * MapBlockVolume
    THEN IF j % 2 = 0
         THEN ((j \div 2) + seed) % 2
         ELSE ((j \div 2) * 5 + seed) % 7
    ELSE IF j < 3 * MapBlockVolume
    THEN (j * 3 + seed) % 256
    ELSE (j * 7 + 11 * seed + 1) % 256

SrcAt(src, k) ==
    IF k < Len(src.hdr) THEN src.hdr[k + 1]
    ELSE IF k - Len(src.hdr) < NodeArrayLen
    THEN NodeGenByte(src.seed, k - Len(src.hdr))
    ELSE 0

NewReader(src) == [src |-> src, pos |-> 0]

\* io.ReadFull(r, buf) with len(buf) = n: all n bytes or an error.
ReadFullShort(r, n) ==
    LET avail == IF r.src.len > r.pos THEN r.src.len - r.pos ELSE 0
        got == IF avail < n THEN avail ELSE n
    IN [err |-> FALSE,
        buf |-> [src |-> r.src, base |-> r.pos, len |-> n, filled |-> got],
        r |-> [r EXCEPT !.pos = @ + got]]

ReadFull(r, n) ==
    IF n = 0
    THEN [err |-> FALSE,
          buf |-> [src |-> r.src, base |-> r.pos, len |-> 0, filled |-> 0],
          r |-> r]
    ELSE IF r.pos + n > r.src.len
    THEN [err |-> TRUE,
          buf |-> [src |-> r.src, base |-> r.pos, len |-> n, filled |-> 0],
          r |-> r]
    ELSE [err |-> FALSE,
          buf |-> [src |-> r.src, base |-> r.pos, len |-> n, filled |-> n],
          r |-> [r EXCEPT !.pos = @ + n]]

\* buf[k] of a byte slice filled by ReadFull (make() zeroes what was not read).
BufAt(buf, k) == IF k < buf.filled THEN SrcAt(buf.src, buf.base + k) ELSE 0

BufBytes(buf) == [j \in 1..buf.len |-> BufAt(buf, j - 1)]

\* reader.Seek(n, io.SeekCurrent): moves the position, also past the end.
Seek(r, n) == [r EXCEPT !.pos = @ + n]

readU8(r) ==
    LET rd == ReadFull(r, 1)
    IN IF rd.err THEN [err |-> TRUE, value |-> 0, r |-> r]
       ELSE [err |-> FALSE, value |-> BufAt(rd.buf, 0), r |-> rd.r]

readU16(r) ==
    LET rd == ReadFull(r, 2)
    IN IF rd.err THEN [err |-> TRUE, value |-> 0, r |-> r]
       ELSE [err |-> FALSE,
             value |-> BufAt(rd.buf, 0) * 256 + BufAt(rd.buf, 1),
             r |-> rd.r]

readString(r) ==
    LET length == readU16(r)
    IN IF length.err THEN [err |-> TRUE, value |-> <<>>, r |-> r]
       ELSE LET rd == ReadFull(length.r, length.value)
            IN IF rd.err THEN [err |-> TRUE, value |-> <<>>, r |-> r]
               ELSE [err |-> FALSE, value |-> BufBytes(rd.buf), r |-> rd.r]

----------------------------------------------------------------------------
(* DecodeMapBlock *)

EmptyMap == [id \in {} |-> <<>>]

\* mappings[id] = name
MapPutFirstWins(m, id, name) ==
    IF id \in DOMAIN m THEN m
    ELSE [x \in DOMAIN m \cup {id} |-> IF x = id THEN name ELSE m[x]]

MapPut(m, id, name) ==
    [x \in DOMAIN m \cup {id} |-> IF x = id THEN name ELSE m[x]]

\* the loop  for i := 0; i < int(mappingCount); i++ { ... }
RECURSIVE ReadMappings(_, _, _, _)
ReadMappings(r, i, mappingCount, mappings) ==
    IF i >= mappingCount
    THEN [err |-> FALSE, mappings |-> mappings, r |-> r]
    ELSE LET id == readU16(r)
         IN IF id.err THEN [err |-> TRUE, mappings |-> mappings, r |-> r]
            ELSE LET name == readString(id.r)
                 IN IF name.err
                    THEN [err |-> TRUE, mappings |-> mappings, r |-> r]
                    ELSE ReadMappings(name.r, i + 1, mappingCount,
                                      MapPut(mappings, id.value, name.value))

Failed(why) == [block |-> Nil, err |-> why]

\* DecodeMapBlock from reader = bytes.NewReader(data) on the decompressed data
DecodePayload(payload) ==
    LET r1 == Seek(NewReader(payload), 1 + 2 + 4 + 1)
        mappingCount == readU16(r1)
    IN IF mappingCount.err THEN Failed("EOF")
       ELSE LET ms == ReadMappings(mappingCount.r, 0, mappingCount.value, EmptyMap)
            IN IF ms.err THEN Failed("EOF")
               ELSE LET r2 == Seek(ms.r, 1 + 1)
                        nd == ReadFull(r2, MapBlockVolume * NodeSizeInBytes)
                    IN IF nd.err THEN Failed("EOF")
                       ELSE [block |-> [mappings |-> ms.mappings,
                                        nodeData |-> nd.buf],
                             err |-> NoErr]

\* zstd.NewReader(reader) + io.ReadAll(z): the decompressed data or an error
ZstdReadAll(data) ==
    IF data.zok THEN [err |-> FALSE, data |-> data.payload]
    ELSE [err |-> TRUE, data |-> data.payload]

DecodeMapBlockNoVersionCheck(data) ==
    LET version == readU8(NewReader(data.raw))
    IN IF version.err THEN Failed("EOF")
       ELSE LET z == ZstdReadAll(data)
            IN IF z.err THEN Failed("zstd") ELSE DecodePayload(z.data)

DecodeMapBlock(data) ==
    LET version == readU8(NewReader(data.raw))
    IN IF version.err THEN Failed("EOF")
       ELSE IF version.value # SupportedVersion THEN Failed("unsupported block version")
       ELSE LET z == ZstdReadAll(data)
            IN IF z.err THEN Failed("zstd") ELSE DecodePayload(z.data)

\* MapBlock.ResolveName: a missing key reads as the empty string
ResolveName(b, id) == IF id \in DOMAIN b.mappings THEN b.mappings[id] ELSE <<>>

\* b.nodeData[k]: an index outside the slice panics
InSlice(buf, k) == k >= 0 /\ k < buf.len

MapBlockGetNodePlanar(b, x, y, z) ==
    LET index == z * MapBlockSize * MapBlockSize + y * MapBlockSize + x
        reads == {index, MapBlockVolume + index,
                  2 * MapBlockVolume + index, 3 * MapBlockVolume + index}
    IN IF \E k \in reads : ~InSlice(b.nodeData, k)
       THEN [panic |-> TRUE, index |-> index, reads |-> reads,
             ID |-> 0, Param1 |-> 0, Param2 |-> 0]
       ELSE [panic |-> FALSE, index |-> index, reads |-> reads,
             ID |-> BufAt(b.nodeData, index) * 256
                    + BufAt(b.nodeData, MapBlockVolume + index),
             Param1 |-> BufAt(b.nodeData, 2 * MapBlockVolume + index),
             Param2 |-> BufAt(b.nodeData, 3 * MapBlockVolume + index)]

MapBlockGetNode(b, x, y, z) ==
    LET index == z * MapBlockSize * MapBlockSize + y * MapBlockSize + x
        reads == {2 * index, 2 * index + 1,
                  2 * MapBlockVolume + index, 3 * MapBlockVolume + index}
    IN IF \E k \in reads : ~InSlice(b.nodeData, k)
       THEN [panic |-> TRUE, index |-> index, reads |-> reads,
             ID |-> 0, Param1 |-> 0, Param2 |-> 0]
       ELSE [panic |-> FALSE, index |-> index, reads |-> reads,
             ID |-> BufAt(b.nodeData, 2 * index) * 256
                    + BufAt(b.nodeData, 2 * index + 1),
             Param1 |-> BufAt(b.nodeData, 2 * MapBlockVolume + index),
             Param2 |-> BufAt(b.nodeData, 3 * MapBlockVolume + index)]

----------------------------------------------------------------------------
(* Raw blocks given to DecodeMapBlock.                                     *)
(* A raw block is described by the bytes before the zstd stream (the       *)
(* version byte, or nothing when the data is empty),                       *)
(* whether the zstd stream after it decompresses, and the decompressed     *)
(* payload: the mapping entries written into it, the seed of its node      *)
(* array and the number of payload bytes actually present.                 *)

Versions == {<<SupportedVersion>>, <<SupportedVersion - 1>>, <<>>}
MapIds == {0, 5}
Names == {<<97>>, <<115, 116>>}
Seeds == {0, 1}
Entry == [id : MapIds, name : Names]

RECURSIVE SeqsUpTo(_, _)
SeqsUpTo(S, n) ==
    IF n = 0 THEN {<<>>}
    ELSE LET shorter == SeqsUpTo(S, n - 1)
         IN shorter \cup {Append(q, e) : q \in shorter, e \in S}

U16Bytes(v) == <<v \div 256, v % 256>>

RECURSIVE EncodeEntries(_)
EncodeEntries(es) ==
    IF es = <<>> THEN <<>>
    ELSE U16Bytes(Head(es).id) \o U16Bytes(Len(Head(es).name)) \o Head(es).name
         \o EncodeEntries(Tail(es))

\* flags:1 lighting_complete:2 timestamp:4 mapping version:1, mapping count,
\* mapping entries, content width:1 params width:1
EncodeHeader(es) ==
    <<0, 255, 255, 0, 0, 0, 1, 0>> \o U16Bytes(Len(es)) \o EncodeEntries(es)
    \o <<2, 2>>

FullLen(es) == Len(EncodeHeader(es)) + NodeArrayLen

PayloadLens(es) ==
    (0 .. Len(EncodeHeader(es)) + 2)
    \cup {FullLen(es) - 1, FullLen(es), FullLen(es) + 1}

RawBlocks ==
    UNION {[version : Versions, zok : BOOLEAN, entries : {es}, seed : Seeds,
            len : PayloadLens(es)] : es \in SeqsUpTo(Entry, MaxMappings)}

Data(in) ==
    [raw |-> [hdr |-> in.version, seed |-> 0, len |-> Len(in.version)],
     zok |-> in.zok,
     payload |-> [hdr |-> EncodeHeader(in.entries), seed |-> in.seed,
                  len |-> in.len]]

Pending == [block |-> Nil, err |-> "pending"]
NoNode == [panic |-> FALSE, index |-> 0, reads |-> {}, ID |-> 0, Param1 |-> 0, Param2 |-> 0]
NoQuery == [op |-> "none", id |-> 0, x |-> 0, y |-> 0, z |-> 0,
            name |-> <<>>, node |-> NoNode]

QueryIds == {0, 5, 7}
LocalCoords == {-1, 0, MapBlockSize - 1, MapBlockSize}

----------------------------------------------------------------------------
(* The neighborhood *)

Pos(x, y, z) == [X |-> x, Y |-> y, Z |-> z]
Zero == Pos(0, 0, 0)

\* spatial.BlockPos.Add: component-wise
Add(p, q) == Pos(p.X + q.X, p.Y + q.Y, p.Z + q.Z)

\* Go's integer / and %: the quotient truncates toward zero and the remainder
\* takes the sign of the dividend
GoDiv(a, b) == IF a >= 0 THEN a \div b ELSE -((-a) \div b)
GoMod(a, b) == a - b * GoDiv(a, b)

neighborhoodCenter == Pos(1, 1, 1)

EmptyNeighborhood == [i \in 0 .. NeighborhoodLen - 1 |-> Nil]

\* the index expression of SetBlock
SetBlockIndexZYX(pos) == pos.Z * 9 + pos.Y * 3 + pos.X

SetBlockIndex(pos) == pos.X * 9 + pos.Y * 3 + pos.Z

\* BlockNeighborhood.SetBlock: b.blocks[...] = block, a panic when the index
\* is outside the array
SetBlock(b, pos, block) ==
    LET index == SetBlockIndex(pos)
    IN IF index \in DOMAIN b
       THEN [panic |-> FALSE, blocks |-> [b EXCEPT ![index] = block]]
       ELSE [panic |-> TRUE, blocks |-> b]

\* Backend.GetBlockData: the raw data stored for a block position, or an error
NotFound == [err |-> TRUE, data |-> <<>>]
GetBlockData(backend, pos) ==
    IF pos \in DOMAIN backend THEN backend[pos] ELSE NotFound

\* World.GetBlock
WorldGetBlock(w, pos) ==
    LET got == GetBlockData(w, pos)
    IN IF got.err THEN Failed("backend")
       ELSE DecodeMapBlock(got.data)

\* BlockNeighborhood.FetchBlock
FetchBlockNoErrCheck(b, w, posOffset, worldPos) ==
    LET got == WorldGetBlock(w, Add(worldPos, posOffset))
    IN SetBlock(b, Add(neighborhoodCenter, posOffset), got.block)

FetchBlock(b, w, posOffset, worldPos) ==
    LET got == WorldGetBlock(w, Add(worldPos, posOffset))
    IN IF got.err # NoErr
       THEN [panic |-> FALSE, blocks |-> b]
       ELSE SetBlock(b, Add(neighborhoodCenter, posOffset), got.block)

\* BlockNeighborhood.getBlockByNodePos
getBlockByNodePos(b, pos) ==
    LET bx == GoDiv(pos.X, BlockSize) + neighborhoodCenter.X
        by == GoDiv(pos.Y, BlockSize) + neighborhoodCenter.Y
        bz == GoDiv(pos.Z, BlockSize) + neighborhoodCenter.Z
        index == bz * 9 + by * 3 + bx
    IN [cell |-> Pos(bx, by, bz), index |-> index,
        panic |-> index \notin DOMAIN b,
        block |-> IF index \in DOMAIN b THEN b[index] ELSE Nil]

Air == <<97, 105, 114>>

\* the block.GetNode(...) call shared by GetNode and GetParam1
LocalNode(block, pos) ==
    MapBlockGetNode(block, GoMod(pos.X, BlockSize), GoMod(pos.Y, BlockSize),
                    GoMod(pos.Z, BlockSize))

LocalPos(pos) ==
    Pos(GoMod(pos.X, BlockSize), GoMod(pos.Y, BlockSize), GoMod(pos.Z, BlockSize))

\* BlockNeighborhood.GetNode
GetNode(b, pos) ==
    LET sel == getBlockByNodePos(b, pos)
    IN IF sel.panic
       THEN [panic |-> TRUE, sel |-> sel, local |-> Zero, reads |-> {},
             name |-> <<>>, param1 |-> 0, param2 |-> 0]
       ELSE IF sel.block = Nil
       THEN [panic |-> FALSE, sel |-> sel, local |-> Zero, reads |-> {},
             name |-> Air, param1 |-> 0, param2 |-> 0]
       ELSE LET node == LocalNode(sel.block, pos)
            IN IF node.panic
               THEN [panic |-> TRUE, sel |-> sel, local |-> LocalPos(pos),
                     reads |-> node.reads,
                     name |-> <<>>, param1 |-> 0, param2 |-> 0]
               ELSE [panic |-> FALSE, sel |-> sel, local |-> LocalPos(pos),
                     reads |-> node.reads,
                     name |-> ResolveName(sel.block, node.ID),
                     param1 |-> node.Param1, param2 |-> node.Param2]

\* BlockNeighborhood.GetParam1
GetParam1(b, pos) ==
    LET sel == getBlockByNodePos(b, pos)
    IN IF sel.panic
       THEN [panic |-> TRUE, sel |-> sel, local |-> Zero, reads |-> {},
             name |-> <<>>, param1 |-> 0, param2 |-> 0]
       ELSE IF sel.block = Nil
       THEN [panic |-> FALSE, sel |-> sel, local |-> Zero, reads |-> {},
             name |-> <<>>, param1 |-> 0, param2 |-> 0]
       ELSE LET node == LocalNode(sel.block, pos)
            IN [panic |-> node.panic, sel |-> sel, local |-> LocalPos(pos),
                reads |-> node.reads,
                name |-> <<>>, param1 |-> node.Param1, param2 |-> 0]

----------------------------------------------------------------------------
(* Inputs of the neighborhood calls *)

Axis == {-1, 0, 1}
Offsets == {Pos(x, y, z) : x \in Axis, y \in Axis, z \in Axis}
Cells == {Pos(x, y, z) : x \in 0 .. 2, y \in 0 .. 2, z \in 0 .. 2}

\* where the rendered block sits in the world
Origins == {Pos(3, -2, 7)}

\* a well-formed raw block: version 29, a sound zstd stream, the whole payload
Raw(es, seed) ==
    [version |-> <<SupportedVersion>>, zok |-> TRUE, entries |-> es,
     seed |-> seed,
     len |-> FullLen(es)]
RawA == Raw(<<[id |-> 5, name |-> <<115, 116>>]>>, 0)
RawB == Raw(<<[id |-> 0, name |-> <<97>>], [id |-> 5, name |-> <<97>>]>>, 1)
RawShort == [RawA EXCEPT !.len = @ - 1]

\* what the backend holds for the block asked for
ReplyKinds == {"missing", "A", "short"}
Reply(kind) ==
    CASE kind = "A" -> [err |-> FALSE, data |-> Data(RawA)]
      [] kind = "short" -> [err |-> FALSE, data |-> Data(RawShort)]
      [] OTHER -> NotFound

\* a backend holding reply for the block at position at, and nothing else
BackendWith(at, reply) == [p \in {at} |-> reply]

BlockA == DecodeMapBlock(Data(RawA)).block
BlockB == DecodeMapBlock(Data(RawB)).block

\* node positions queried: along each axis through (5,5,5), and corners
EdgeCoords == {-BlockSize, -1, 0, BlockSize - 1, BlockSize, BlockSize + 4,
               2 * BlockSize - 1}
NodePositions ==
    {Pos(a, 5, 5) : a \in EdgeCoords} \cup {Pos(5, a, 5) : a \in EdgeCoords}
    \cup {Pos(5, 5, a) : a \in EdgeCoords}
    \cup {Pos(a, a, a) : a \in {-BlockSize, -1, 2 * BlockSize - 1}}
    \cup {Pos(-1, 0, 0)}

\* array coordinates handed to SetBlock directly: every cell, and some
\* relative offsets with a negative component
SetBlockArgs ==
    Cells \cup {Pos(-1, 0, 0), Pos(0, -1, 0), Pos(0, 0, -1), Pos(-1, -1, -1),
                Pos(1, -1, 0)}

NoCall ==
    [op |-> "none", pos |-> Zero, origin |-> Zero,
     reply |-> "missing", block |-> Nil, before |-> EmptyNeighborhood,
     panic |-> FALSE, out |-> GetParam1(EmptyNeighborhood, Zero)]

----------------------------------------------------------------------------
(* Codec specification *)

NeighborhoodIdle ==
    /\ blocks = EmptyNeighborhood
    /\ last = NoCall
    /\ calls = 0

InitCodec ==
    /\ NeighborhoodIdle
    /\ input \in RawBlocks
    /\ result = Pending
    /\ query = NoQuery

Decode ==
    /\ result = Pending
    /\ result' = DecodeMapBlock(Data(input))
    /\ UNCHANGED <<blocks, last, calls, input, query>>

DoResolveName(id) ==
    /\ result.block # Nil
    /\ ~query.node.panic
    /\ query' = [NoQuery EXCEPT !.op = "ResolveName", !.id = id,
                                !.name = ResolveName(result.block, id)]
    /\ UNCHANGED <<blocks, last, calls, input, result>>

DoMapBlockGetNode(x, y, z) ==
    /\ result.block # Nil
    /\ ~query.node.panic
    /\ query' = [NoQuery EXCEPT !.op = "GetNode", !.x = x, !.y = y, !.z = z,
                                !.node = MapBlockGetNode(result.block, x, y, z)]
    /\ UNCHANGED <<blocks, last, calls, input, result>>

NextCodec ==
    \/ Decode
    \/ \E id \in QueryIds : DoResolveName(id)
    \/ \E x, y, z \in LocalCoords : DoMapBlockGetNode(x, y, z)

SpecCodec == InitCodec /\ [][NextCodec]_vars

----------------------------------------------------------------------------
(* Neighborhood specification *)

CodecIdle ==
    /\ input = RawA
    /\ result = Pending
    /\ query = NoQuery

Init ==
    /\ blocks = EmptyNeighborhood
    /\ last = NoCall
    /\ calls = 0
    /\ CodecIdle

CanCall == calls < MaxCalls /\ ~last.panic

DoFetchBlock(posOffset, worldPos, reply) ==
    /\ CanCall
    /\ LET w == BackendWith(Add(worldPos, posOffset), Reply(reply))
           got == FetchBlock(blocks, w, posOffset, worldPos)
       IN /\ blocks' = got.blocks
          /\ last' = [NoCall EXCEPT !.op = "FetchBlock", !.pos = posOffset,
                                    !.origin = worldPos,
                                    !.reply = reply, !.before = blocks,
                                    !.panic = got.panic]
    /\ calls' = calls + 1
    /\ UNCHANGED <<input, result, query>>

DoSetBlock(pos, block) ==
    /\ CanCall
    /\ LET got == SetBlock(blocks, pos, block)
       IN /\ blocks' = got.blocks
          /\ last' = [NoCall EXCEPT !.op = "SetBlock", !.pos = pos,
                                    !.block = block, !.before = blocks,
                                    !.panic = got.panic]
    /\ calls' = calls + 1
    /\ UNCHANGED <<input, result, query>>

DoGetNode(pos) ==
    /\ CanCall
    /\ LET got == GetNode(blocks, pos)
       IN last' = [NoCall EXCEPT !.op = "GetNode", !.pos = pos,
                                 !.before = blocks, !.panic = got.panic,
                                 !.out = got]
    /\ calls' = calls + 1
    /\ UNCHANGED <<blocks, input, result, query>>

DoGetParam1(pos) ==
    /\ CanCall
    /\ LET got == GetParam1(blocks, pos)
       IN last' = [NoCall EXCEPT !.op = "GetParam1", !.pos = pos,
                                 !.before = blocks, !.panic = got.panic,
                                 !.out = got]
    /\ calls' = calls + 1
    /\ UNCHANGED <<blocks, input, result, query>>

Next ==
    \/ \E posOffset \in Offsets, worldPos \in Origins, reply \in ReplyKinds :
          DoFetchBlock(posOffset, worldPos, reply)
    \/ \E pos \in SetBlockArgs : DoSetBlock(pos, BlockB)
    \/ \E pos \in NodePositions : DoGetNode(pos)
    \/ \E pos \in NodePositions : DoGetParam1(pos)

Spec == Init /\ [][Next]_vars

----------------------------------------------------------------------------
(* Codec properties (checked under SpecCodec) *)

Done == result # Pending

\* the name of the last entry of es that carries id, "" when none does
RECURSIVE LastName(_, _)
LastName(es, id) ==
    IF es = <<>> THEN <<>>
    ELSE IF es[Len(es)].id = id THEN es[Len(es)].name
    ELSE LastName(SubSeq(es, 1, Len(es) - 1), id)

\* byte k of the node array as it stands in the decompressed payload
NodeArrayByte(k) ==
    SrcAt(Data(input).payload, Len(EncodeHeader(input.entries)) + k)

FirstByte == Data(input).raw.hdr

WellFormed ==
    /\ input.version = <<SupportedVersion>>
    /\ input.zok
    /\ input.len >= FullLen(input.entries)

InBlock(x, y, z) ==
    /\ x \in 0 .. MapBlockSize - 1
    /\ y \in 0 .. MapBlockSize - 1
    /\ z \in 0 .. MapBlockSize - 1

\* C5: a raw block whose first byte is not 29 yields the version error and no
\* MapBlock, whatever the rest of the data is (corrupt stream, short payload).
ThmC5 ==
    (Done /\ FirstByte # <<>> /\ FirstByte[1] # 29)
        => (result.block = Nil /\ result.err = "unsupported block version")

WitC5 ==
    /\ Done
    /\ FirstByte = <<28>>
    /\ input.zok
    /\ input.len = FullLen(input.entries)
    /\ result.block = Nil

\* C6 as claimed: MapBlock.GetNode reads the ID from two 4096-byte planes,
\* ID = (nodeData[i] << 8) | nodeData[4096 + i].
OrigC6 ==
    (query.op = "GetNode" /\ InBlock(query.x, query.y, query.z))
        => LET i == query.z * 256 + query.y * 16 + query.x
           IN /\ ~query.node.panic
              /\ query.node.ID = NodeArrayByte(i) * 256 + NodeArrayByte(4096 + i)
              /\ query.node.Param1 = NodeArrayByte(2 * 4096 + i)
              /\ query.node.Param2 = NodeArrayByte(3 * 4096 + i)

\* C6 amended: the two ID bytes of voxel i are adjacent, big-endian, in the first
\* 8192 bytes: ID = (nodeData[2i] << 8) | nodeData[2i + 1]; param1 and param2
\* are the planes at 2*4096 and 3*4096; i = z*256 + y*16 + x.
ThmC6 ==
    (query.op = "GetNode" /\ InBlock(query.x, query.y, query.z))
        => LET i == query.z * 256 + query.y * 16 + query.x
           IN /\ ~query.node.panic
              /\ query.node.index = i
              /\ query.node.ID = NodeArrayByte(2 * i) * 256 + NodeArrayByte(2 * i + 1)
              /\ query.node.Param1 = NodeArrayByte(2 * 4096 + i)
              /\ query.node.Param2 = NodeArrayByte(3 * 4096 + i)

WitC6 ==
    /\ query.op = "GetNode"
    /\ query.x = 15 /\ query.y = 0 /\ query.z = 15
    /\ query.node.ID # NodeArrayByte(query.node.index) * 256
                       + NodeArrayByte(4096 + query.node.index)
    /\ input.entries # <<>>

\* C7: a block whose mapping table repeats an ID decodes, and ResolveName gives
\* for every ID the name of the last entry carrying it, "" when none does.
ThmC7 ==
    /\ (Done /\ WellFormed) => result.block # Nil
    /\ result.block # Nil =>
          \A id \in 0 .. 7 :
              ResolveName(result.block, id) = LastName(input.entries, id)
    /\ query.op = "ResolveName" => query.name = LastName(input.entries, query.id)

WitC7 ==
    /\ query.op = "ResolveName"
    /\ Len(input.entries) = 2
    /\ input.entries[1].id = query.id
    /\ input.entries[2].id = query.id
    /\ input.entries[1].name # input.entries[2].name
    /\ query.name = input.entries[2].name

\* C8: a payload shorter than its fields require yields an error and no
\* MapBlock; every MapBlock returned holds 16384 node bytes, all of them read
\* from the payload.
ThmC8 ==
    /\ (Done /\ input.len < FullLen(input.entries))
          => (result.block = Nil /\ result.err # NoErr)
    /\ result.block # Nil
          => /\ result.block.nodeData.len = 16384
             /\ result.block.nodeData.filled = 16384
             /\ result.block.nodeData.base + 16384 <= input.len

WitC8 ==
    /\ Done
    /\ input.version = <<SupportedVersion>>
    /\ input.zok
    /\ Len(input.entries) = 2
    /\ input.len = FullLen(input.entries) - 1
    /\ result.block = Nil
    /\ result.err = "EOF"

----------------------------------------------------------------------------
(* Neighborhood properties (checked under Spec) *)

IsQuery == last.op \in {"GetNode", "GetParam1"}

\* floor division and the non-negative remainder, per axis
FloorOffset(pos) ==
    Pos(pos.X \div BlockSize, pos.Y \div BlockSize, pos.Z \div BlockSize)
EuclidLocal(pos) ==
    Pos(pos.X % BlockSize, pos.Y % BlockSize, pos.Z % BlockSize)

\* the array index of the cell FetchBlock fills for a relative offset
CellIndexOfOffset(off) == (off.X + 1) * 9 + (off.Y + 1) * 3 + (off.Z + 1)

\* what the world holds for the block a FetchBlock call is about
Fetched ==
    WorldGetBlock(BackendWith(Add(last.origin, last.pos), Reply(last.reply)),
                  Add(last.origin, last.pos))

\* C1: a query for p in [-16, 32)^3 selects the cell floorDiv(p, 16) + 1 on
\* each axis and, in a block that is present, the local position p mod 16
\* (non-negative).
OrigC1 ==
    IsQuery =>
        /\ last.out.sel.cell = Add(FloorOffset(last.pos), neighborhoodCenter)
        /\ last.out.sel.block # Nil => last.out.local = EuclidLocal(last.pos)

\* C2: the block a query consults for p is the block stored for the relative
\* offset floorDiv(p, 16).  Stated for p with no negative component, where
\* Go's / is floor division, so that only the axis order decides it.
OrigC2 ==
    (IsQuery /\ last.pos.X >= 0 /\ last.pos.Y >= 0 /\ last.pos.Z >= 0)
        => last.out.sel.block = blocks[CellIndexOfOffset(FloorOffset(last.pos))]

\* C3: a query for a position whose cell (the cell of offset floorDiv(p, 16))
\* holds no block returns ("air", 0, 0), resp. 0, without failing and without
\* reading another cell's block.
OrigC3 ==
    (IsQuery /\ blocks[CellIndexOfOffset(FloorOffset(last.pos))] = Nil)
        => /\ ~last.panic
           /\ last.out.sel.block = Nil
           /\ last.op = "GetNode" =>
                 (last.out.name = Air /\ last.out.param1 = 0 /\ last.out.param2 = 0)
           /\ last.op = "GetParam1" => last.out.param1 = 0

\* The nil branch taken alone: when the cell getBlockByNodePos selects is nil
\* the answer is ("air", 0, 0), resp. 0.
NilCellGivesAir ==
    (IsQuery /\ ~last.out.sel.panic /\ last.out.sel.block = Nil)
        => /\ ~last.panic
           /\ last.out.param1 = 0 /\ last.out.param2 = 0
           /\ last.op = "GetNode" => last.out.name = Air

\* C4: FetchBlock asks for worldPos + posOffset; when the fetch or the decoding
\* fails no cell changes; when it succeeds the cell of the offset holds the
\* returned block and the other 26 cells are unchanged.
ThmC4 ==
    last.op = "FetchBlock" =>
        /\ ~last.panic
        /\ IF Fetched.err # NoErr
           THEN blocks = last.before
           ELSE blocks = [last.before EXCEPT
                             ![CellIndexOfOffset(last.pos)] = Fetched.block]

WitC4 ==
    /\ last.op = "FetchBlock"
    /\ last.reply = "short"
    /\ last.pos = Pos(1, 0, -1)
    /\ last.before[CellIndexOfOffset(last.pos)] = BlockA
    /\ blocks[CellIndexOfOffset(last.pos)] = BlockA

\* C9 as claimed: SetBlock takes a relative offset in {-1,0,1}^3 and writes the
\* cell offset + 1, leaving the other cells unchanged.
OrigC9 ==
    (last.op = "SetBlock" /\ last.pos \in Offsets)
        => /\ ~last.panic
           /\ blocks = [last.before EXCEPT
                           ![CellIndexOfOffset(last.pos)] = last.block]

\* C9 amended: SetBlock takes array coordinates in {0,1,2}^3 and applies no
\* shift: it writes cell X*9 + Y*3 + Z, inside the array, and nothing else.
\* The +1 shift is made by FetchBlock, which for an offset in {-1,0,1}^3
\* stores a fetched block in cell (X+1)*9 + (Y+1)*3 + (Z+1).
ThmC9 ==
    /\ (last.op = "SetBlock" /\ last.pos \in Cells)
          => /\ ~last.panic
             /\ last.pos.X * 9 + last.pos.Y * 3 + last.pos.Z \in 0 .. 26
             /\ blocks = [last.before EXCEPT
                             ![last.pos.X * 9 + last.pos.Y * 3 + last.pos.Z]
                                 = last.block]
    /\ (last.op = "FetchBlock" /\ Fetched.err = NoErr)
          => /\ ~last.panic
             /\ CellIndexOfOffset(last.pos) \in 0 .. 26
             /\ blocks = [last.before EXCEPT
                             ![CellIndexOfOffset(last.pos)] = Fetched.block]

WitC9 ==
    /\ last.op = "SetBlock"
    /\ last.pos = Pos(2, 0, 1)
    /\ last.before[19] = Nil
    /\ blocks[19] = BlockB
    /\ blocks[11] = Nil

\* C10: a query for p in [-16, 32)^3 never indexes outside an array: the cell
\* index is in 0..26, the local coordinates are in 0..15 and the nodeData
\* offsets read are in 0..16383.
OrigC10 ==
    IsQuery =>
        /\ ~last.panic
        /\ last.out.sel.index \in 0 .. 26
        /\ last.out.sel.block # Nil =>
              /\ last.out.local.X \in 0 .. 15
              /\ last.out.local.Y \in 0 .. 15
              /\ last.out.local.Z \in 0 .. 15
              /\ last.out.reads \subseteq 0 .. 16383

====
